---- MODULE Spec2Model ----
(***************************************************************************)
(* Model of isn, the Kimigayo OS package manager (src/pkg/isn).            *)
(*                                                                         *)
(* Spec      : two invocations      of the isn binary running against one  *)
(*             system.  Each invocation is main() dispatching to one       *)
(*             function of commands.rs, which checks the effective user,   *)
(*             spawns the apk backend and waits for it.                    *)
(* StoreSpec : the metadata store of database.rs: Database::new,           *)
(*             Database::init_schema and the row statements SQLite accepts *)
(*             or rejects under the schema init_schema declares.           *)
(***************************************************************************)
EXTENDS Integers, Sequences, FiniteSets, TLC

\* ---------------------------------------------------------------- bounds
NumPackages == 2
MaxIndex == 1
MaxRows == 3

\* Two invocations of the binary, enough for any two of them to overlap.
Procs == {1, 2}
PackageNames == <<"busybox", "openssl", "curl", "zlib">>
Packages == {PackageNames[i] : i \in 1..NumPackages}

\* ------------------------------------------------------------- variables
VARIABLES
    pc,          \* [Procs -> position of the invocation]
    command,     \* [Procs -> the parsed Commands value]
    euid,        \* [Procs -> effective user id of the invocation]
    spawned,     \* [Procs -> sequence of backend commands: argv and status]
    result,      \* [Procs -> what the commands.rs function returned to main]
    exitCode,    \* [Procs -> process exit status, -1 while running]
    exitedBy,    \* [Procs -> the layer that ended the process]
    listed,      \* [Procs -> the packages `list` printed]
    pre,         \* [Procs -> system state when a multi-step operation began]
    installed,   \* [Packages -> "absent" | "explicit" | "dependency"]
    index,       \* generation of the fetched repository index
    upgradedTo,  \* index generation the installed packages are upgraded to
    conn,        \* Database.conn: "closed" | "open"
    tables,      \* the tables the database file holds
    packages,    \* the rows of the packages table
    sqlResult    \* outcome of the last statement on the store

cliVars == <<pc, command, euid, spawned, result, exitCode, exitedBy, listed, pre>>
sysVars == <<installed, index, upgradedTo>>
dbVars == <<conn, tables, packages, sqlResult>>
vars == <<pc, command, euid, spawned, result, exitCode, exitedBy, listed, pre,
          installed, index, upgradedTo, conn, tables, packages, sqlResult>>

\* ------------------------------------------------------------ main.rs
\* The Commands enum: one variant per sub-command, with its arguments.
Commands ==
    [name : {"install", "remove", "info", "verify"}, package : Packages, flag : {FALSE}]
    \cup [name : {"install", "remove"}, package : Packages, flag : {TRUE}]
    \cup [name : {"search"}, package : Packages, flag : {FALSE}]
    \cup [name : {"update"}, package : {""}, flag : {FALSE}]
    \cup [name : {"upgrade", "list", "security_update"}, package : {""}, flag : BOOLEAN]

NoCommand == [name |-> "none", package |-> "", flag |-> FALSE]
NoSnapshot == [taken |-> FALSE]
NoOutput == {"<none>"}

\* The system state a transaction would have to restore.
SystemState == [taken |-> TRUE, installed |-> installed, index |-> index,
                upgradedTo |-> upgradedTo]

\* libc::geteuid() == 0
is_root(p) == euid[p] = 0

\* The functions of commands.rs that begin with the is_root check.
Mutating == {"install", "remove", "update", "upgrade", "security_update"}

TypeOK ==
    /\ pc \in [Procs -> {"init", "call", "spawn1", "wait1", "spawn2", "wait2", "ret", "done"}]
    /\ command \in [Procs -> Commands \cup {NoCommand}]
    /\ euid \in [Procs -> {0, 1000}]
    /\ result \in [Procs -> {"none", "Ok", "Err"}]
    /\ exitCode \in [Procs -> {-1, 0, 1}]
    /\ exitedBy \in [Procs -> {"none", "commands", "main"}]
    /\ installed \in [Packages -> {"absent", "explicit", "dependency"}]
    /\ index \in 0..MaxIndex
    /\ upgradedTo \in 0..MaxIndex
    /\ conn \in {"closed", "open"}

Init ==
    /\ pc = [p \in Procs |-> "init"]
    /\ command = [p \in Procs |-> NoCommand]
    /\ euid \in [Procs -> {0, 1000}]
    /\ spawned = [p \in Procs |-> <<>>]
    /\ result = [p \in Procs |-> "none"]
    /\ exitCode = [p \in Procs |-> -1]
    /\ exitedBy = [p \in Procs |-> "none"]
    /\ listed = [p \in Procs |-> NoOutput]
    /\ pre = [p \in Procs |-> NoSnapshot]
    /\ installed \in [Packages -> {"absent", "explicit", "dependency"}]
    /\ index = 0
    /\ upgradedTo = 0
    /\ conn = "closed"
    /\ tables = {}
    /\ packages = {}
    /\ sqlResult = "none"

\* main as it would be if it opened the metadata store before dispatching.
main_dispatch_opening_store(p) ==
    /\ pc[p] = "init"
    /\ \E c \in Commands :
        /\ command' = [command EXCEPT ![p] = c]
        /\ pre' = [pre EXCEPT ![p] =
                     IF c.name = "security_update" THEN SystemState ELSE NoSnapshot]
    /\ pc' = [pc EXCEPT ![p] = "call"]
    /\ conn' = "open"
    /\ tables' = tables \cup {"packages", "dependencies"}
    /\ UNCHANGED <<packages, sqlResult>>
    /\ UNCHANGED <<euid, spawned, result, exitCode, exitedBy, listed>>
    /\ UNCHANGED sysVars

\* main: Cli::parse() and the match that calls the function of commands.rs.
main_dispatch(p) ==
    /\ pc[p] = "init"
    /\ \E c \in Commands :
        /\ command' = [command EXCEPT ![p] = c]
        /\ pre' = [pre EXCEPT ![p] =
                     IF c.name = "security_update" THEN SystemState ELSE NoSnapshot]
    /\ pc' = [pc EXCEPT ![p] = "call"]
    /\ UNCHANGED <<euid, spawned, result, exitCode, exitedBy, listed>>
    /\ UNCHANGED sysVars
    /\ UNCHANGED dbVars

\* main: `if let Err(e) = result { process::exit(1) }`, else main returns.
main_result(p) ==
    /\ pc[p] = "ret"
    /\ pc' = [pc EXCEPT ![p] = "done"]
    /\ exitCode' = [exitCode EXCEPT ![p] = IF result[p] = "Err" THEN 1 ELSE 0]
    /\ exitedBy' = [exitedBy EXCEPT ![p] = "main"]
    /\ UNCHANGED <<command, euid, spawned, result, listed, pre>>
    /\ UNCHANGED sysVars
    /\ UNCHANGED dbVars

\* ---------------------------------------------------------- commands.rs
\* std::process::exit(1) inside a function of commands.rs.
process_exit(p) ==
    /\ pc' = [pc EXCEPT ![p] = "done"]
    /\ exitCode' = [exitCode EXCEPT ![p] = 1]
    /\ exitedBy' = [exitedBy EXCEPT ![p] = "commands"]

\* `if !is_root() { ...; std::process::exit(1); }` at the head of function f.
RootCheck(p, f) ==
    /\ pc[p] = "call"
    /\ command[p].name = f
    /\ IF is_root(p)
         THEN /\ pc' = [pc EXCEPT ![p] = "spawn1"]
              /\ UNCHANGED <<exitCode, exitedBy>>
         ELSE process_exit(p)
    /\ UNCHANGED <<command, euid, spawned, result, listed, pre>>
    /\ UNCHANGED sysVars
    /\ UNCHANGED dbVars

\* A function without the is_root check goes straight to building its command.
NoRootCheck(p, f) ==
    /\ pc[p] = "call"
    /\ command[p].name = f
    /\ pc' = [pc EXCEPT ![p] = "spawn1"]
    /\ UNCHANGED <<command, euid, spawned, result, exitCode, exitedBy, listed, pre>>
    /\ UNCHANGED sysVars
    /\ UNCHANGED dbVars

\* The argument `--no-cache` added when the yes flag is set.
NoCache(c) == IF c.flag THEN <<"--no-cache">> ELSE <<>>

\* The command line each function builds with Command::new("apk").
Argv(c, step) ==
    CASE c.name = "install" -> <<"apk", "add">> \o NoCache(c) \o <<c.package>>
      [] c.name = "remove" -> <<"apk", "del", c.package>>
      [] c.name = "update" -> <<"apk", "update">>
      [] c.name = "upgrade" -> <<"apk", "upgrade">> \o NoCache(c)
      [] c.name = "search" -> <<"apk", "search", c.package>>
      [] c.name = "info" -> <<"apk", "info", c.package>>
      [] c.name = "list" -> <<"apk", "list", "--installed">>
      [] c.name = "verify" -> <<"apk", "verify", c.package>>
      [] c.name = "security_update" /\ step = 1 -> <<"apk", "update">>
      [] c.name = "security_update" /\ step = 2 -> <<"apk", "upgrade">> \o NoCache(c)

\* `cmd.output()?`, first half: the child is spawned, or the io::Error of a
\* failed spawn is converted to IsnError::IoError and returned by `?`.
Output(p, f, step) ==
    /\ pc[p] = (IF step = 1 THEN "spawn1" ELSE "spawn2")
    /\ command[p].name = f
    /\ \E ok \in BOOLEAN :
        IF ok
          THEN /\ spawned' = [spawned EXCEPT ![p] =
                     Append(@, [argv |-> Argv(command[p], step), status |-> "running"])]
               /\ pc' = [pc EXCEPT ![p] = IF step = 1 THEN "wait1" ELSE "wait2"]
               /\ UNCHANGED result
          ELSE /\ spawned' = [spawned EXCEPT ![p] =
                     Append(@, [argv |-> Argv(command[p], step), status |-> "spawn_error"])]
               /\ pc' = [pc EXCEPT ![p] = "ret"]
               /\ result' = [result EXCEPT ![p] = "Err"]
    /\ UNCHANGED <<command, euid, exitCode, exitedBy, listed, pre>>
    /\ UNCHANGED sysVars
    /\ UNCHANGED dbVars

\* What the apk child does to the system when it exits with status st.
apk(argv, st) ==
    IF st # "success" THEN UNCHANGED sysVars
    ELSE CASE argv[2] = "add" ->
                /\ installed' = [installed EXCEPT ![argv[Len(argv)]] = "explicit"]
                /\ UNCHANGED <<index, upgradedTo>>
           [] argv[2] = "del" ->
                /\ installed' = [installed EXCEPT ![argv[Len(argv)]] = "absent"]
                /\ UNCHANGED <<index, upgradedTo>>
           [] argv[2] = "update" ->
                /\ index' = IF index < MaxIndex THEN index + 1 ELSE index
                /\ UNCHANGED <<installed, upgradedTo>>
           [] argv[2] = "upgrade" ->
                /\ upgradedTo' = index
                /\ UNCHANGED <<installed, index>>
           [] OTHER -> UNCHANGED sysVars

\* The lines of `apk list --installed`: every installed package.
ListStdout == {n \in Packages : installed[n] # "absent"}

\* What `list` prints from the child's stdout; the explicit flag only
\* selects the wording of the heading.
ListPrinted(explicit, stdout) == stdout

\* `cmd.output()?`, second half, and the `if output.status.success()` that
\* follows it: Ok(()) on success, std::process::exit(1) otherwise.
Status(p, f, step) ==
    /\ pc[p] = (IF step = 1 THEN "wait1" ELSE "wait2")
    /\ command[p].name = f
    /\ \E st \in {"success", "failure"} :
        /\ spawned' = [spawned EXCEPT ![p][Len(spawned[p])].status = st]
        /\ apk(spawned[p][Len(spawned[p])].argv, st)
        /\ IF st = "success"
             THEN /\ pc' = [pc EXCEPT ![p] = "ret"]
                  /\ result' = [result EXCEPT ![p] = "Ok"]
                  /\ listed' = [listed EXCEPT ![p] =
                        IF f = "list" THEN ListPrinted(command[p].flag, ListStdout)
                        ELSE @]
                  /\ UNCHANGED <<exitCode, exitedBy>>
             ELSE /\ process_exit(p)
                  /\ UNCHANGED <<result, listed>>
    /\ UNCHANGED <<command, euid, pre>>
    /\ UNCHANGED dbVars

install_is_root(p) == RootCheck(p, "install")
install_output(p) == Output(p, "install", 1)
install_status(p) == Status(p, "install", 1)
install(p) == install_is_root(p) \/ install_output(p) \/ install_status(p)

remove_is_root(p) == RootCheck(p, "remove")
remove_output(p) == Output(p, "remove", 1)
remove_status(p) == Status(p, "remove", 1)
remove(p) == remove_is_root(p) \/ remove_output(p) \/ remove_status(p)

update_is_root(p) == RootCheck(p, "update")
update_output(p) == Output(p, "update", 1)
update_status(p) == Status(p, "update", 1)
update(p) == update_is_root(p) \/ update_output(p) \/ update_status(p)

\* upgrade as it would be without its is_root check.
upgrade_without_is_root(p) == NoRootCheck(p, "upgrade")
upgrade_is_root(p) == RootCheck(p, "upgrade")
upgrade_output(p) == Output(p, "upgrade", 1)
upgrade_status(p) == Status(p, "upgrade", 1)
upgrade(p) == upgrade_is_root(p) \/ upgrade_output(p) \/ upgrade_status(p)

search_entry(p) == NoRootCheck(p, "search")
search_output(p) == Output(p, "search", 1)
search_status(p) == Status(p, "search", 1)
search(p) == search_entry(p) \/ search_output(p) \/ search_status(p)

info_entry(p) == NoRootCheck(p, "info")
info_output(p) == Output(p, "info", 1)
info_status(p) == Status(p, "info", 1)
info(p) == info_entry(p) \/ info_output(p) \/ info_status(p)

list_entry(p) == NoRootCheck(p, "list")
list_output(p) == Output(p, "list", 1)
list_status(p) == Status(p, "list", 1)
list(p) == list_entry(p) \/ list_output(p) \/ list_status(p)

verify_entry(p) == NoRootCheck(p, "verify")
verify_output(p) == Output(p, "verify", 1)
verify_status(p) == Status(p, "verify", 1)
verify(p) == verify_entry(p) \/ verify_output(p) \/ verify_status(p)

security_update_is_root(p) == RootCheck(p, "security_update")
security_update_step1_output(p) == Output(p, "security_update", 1)

\* `let _ = update_cmd.output()?;`: the child has exited and its status is
\* dropped; the function goes on to step 2 whatever the status was.
security_update_step1_status(p) ==
    /\ pc[p] = "wait1"
    /\ command[p].name = "security_update"
    /\ \E st \in {"success", "failure"} :
        /\ spawned' = [spawned EXCEPT ![p][Len(spawned[p])].status = st]
        /\ apk(spawned[p][Len(spawned[p])].argv, st)
    /\ pc' = [pc EXCEPT ![p] = "spawn2"]
    /\ UNCHANGED <<command, euid, result, exitCode, exitedBy, listed, pre>>
    /\ UNCHANGED dbVars

security_update_step2_output(p) == Output(p, "security_update", 2)
security_update_step2_status(p) == Status(p, "security_update", 2)
security_update(p) ==
    \/ security_update_is_root(p)
    \/ security_update_step1_output(p)
    \/ security_update_step1_status(p)
    \/ security_update_step2_output(p)
    \/ security_update_step2_status(p)

Next ==
    \E p \in Procs :
        \/ main_dispatch(p)
        \/ install(p)
        \/ remove(p)
        \/ update(p)
        \/ upgrade(p)
        \/ search(p)
        \/ info(p)
        \/ list(p)
        \/ verify(p)
        \/ security_update(p)
        \/ main_result(p)

Spec == Init /\ [][Next]_vars

\* ---------------------------------------------------------- database.rs
\* NULL in a column, and the values a statement can offer for each column.
NULL == "NULL"
RowIds == 1..MaxRows
Versions == {"1.0", "2.0"}

\* The packages table as it would be with `name TEXT NOT NULL`.
PackagesSchemaWithoutUnique ==
    [primary_key |-> {"id"}, not_null |-> {"name", "version"}, unique |-> {}]

\* CREATE TABLE IF NOT EXISTS packages: the constraints on its columns.
PackagesSchema ==
    [primary_key |-> {"id"}, not_null |-> {"name", "version"}, unique |-> {"name"}]

\* Database::new: Connection::open(path)?, which creates an empty database
\* file when there is none.
Database_new ==
    /\ conn = "closed"
    /\ \E ok \in BOOLEAN :
        /\ conn' = IF ok THEN "open" ELSE "closed"
        /\ sqlResult' = IF ok THEN "ok" ELSE "error"
    /\ UNCHANGED <<tables, packages>>
    /\ UNCHANGED cliVars
    /\ UNCHANGED sysVars

\* Database::init_schema: IF NOT EXISTS keeps a table that is already there.
init_schema ==
    /\ conn = "open"
    /\ tables' = tables \cup {"packages", "dependencies"}
    /\ sqlResult' = "ok"
    /\ UNCHANGED <<conn, packages>>
    /\ UNCHANGED cliVars
    /\ UNCHANGED sysVars

\* The constraint of the packages table that row r breaks next to the rows
\* in table, "ok" when it breaks none.
Constraint(r, table) ==
    IF \E col \in PackagesSchema.not_null : r[col] = NULL
      THEN "constraint_notnull"
    ELSE IF "id" \in PackagesSchema.primary_key /\ \E o \in table : o.id = r.id
      THEN "constraint_primarykey"
    ELSE IF \E col \in PackagesSchema.unique :
              r[col] # NULL /\ \E o \in table : o[col] = r[col]
      THEN "constraint_unique"
    ELSE "ok"

\* id INTEGER PRIMARY KEY: a NULL id takes the next free rowid.
RowId(id, table) ==
    IF id # 0 THEN id
    ELSE IF table = {} THEN 1
    ELSE 1 + (CHOOSE m \in {o.id : o \in table} : \A o \in table : o.id <= m)

\* INSERT INTO packages (id, name, version) VALUES (...); id 0 stands for NULL.
SqlInsert(id, name, version) ==
    /\ conn = "open"
    /\ "packages" \in tables
    /\ RowId(id, packages) \in RowIds
    /\ LET r == [id |-> RowId(id, packages), name |-> name, version |-> version]
           c == Constraint(r, packages)
       IN /\ packages' = IF c = "ok" THEN packages \cup {r} ELSE packages
          /\ sqlResult' = c
    /\ UNCHANGED <<conn, tables>>
    /\ UNCHANGED cliVars
    /\ UNCHANGED sysVars

\* UPDATE packages SET name = ..., version = ... WHERE id = ...
SqlUpdate(id, name, version) ==
    /\ conn = "open"
    /\ "packages" \in tables
    /\ \E old \in packages :
        /\ old.id = id
        /\ LET r == [id |-> id, name |-> name, version |-> version]
               c == Constraint(r, packages \ {old})
           IN /\ packages' = IF c = "ok" THEN (packages \ {old}) \cup {r} ELSE packages
              /\ sqlResult' = c
    /\ UNCHANGED <<conn, tables>>
    /\ UNCHANGED cliVars
    /\ UNCHANGED sysVars

\* DELETE FROM packages WHERE id = ...
SqlDelete(id) ==
    /\ conn = "open"
    /\ "packages" \in tables
    /\ packages' = {o \in packages : o.id # id}
    /\ sqlResult' = "ok"
    /\ UNCHANGED <<conn, tables>>
    /\ UNCHANGED cliVars
    /\ UNCHANGED sysVars

StoreNext ==
    \/ Database_new
    \/ init_schema
    \/ \E id \in RowIds \cup {0}, name \in Packages \cup {NULL},
          version \in Versions \cup {NULL} : SqlInsert(id, name, version)
    \/ \E id \in RowIds, name \in Packages \cup {NULL},
          version \in Versions \cup {NULL} : SqlUpdate(id, name, version)
    \/ \E id \in RowIds : SqlDelete(id)

StoreSpec == Init /\ [][StoreNext]_vars

\* ================================================================ claims
\* The last backend command of invocation p, and the status of its i-th.
StatusOf(p, i) == spawned[p][i].status
SubCommandOf(p, i) == spawned[p][i].argv[2]

\* No other invocation has started: p ran alone on the system.
RanAlone(p) == \A q \in Procs \ {p} : pc[q] = "init"

\* C1: no function of commands.rs ends the process itself; every failure
\* reaches main as an Err and only main turns it into an exit status.
C1_CoreNeverTerminatesProcess ==
    \A p \in Procs : exitedBy[p] # "commands"

\* C2: a multi-step operation whose step fails leaves the system as it was
\* before the operation began; for security_update, a failed step 2 (the
\* upgrade) leaves the state that preceded step 1 (the database update).
C2_FailedStepRestoresState ==
    \A p \in Procs :
        ( /\ command[p].name = "security_update"
          /\ pc[p] = "done"
          /\ Len(spawned[p]) = 2
          /\ StatusOf(p, 2) \in {"failure", "spawn_error"}
          /\ RanAlone(p) )
        => SystemState = pre[p]

\* C3: two mutating operations are never both inside their backend write
\* step: a global lock serialises them.
InWriteStep(p) == command[p].name \in Mutating /\ pc[p] \in {"wait1", "wait2"}

C3_WritesAreExclusive ==
    \A p, q \in Procs : p # q => ~(InWriteStep(p) /\ InWriteStep(q))

\* C4: in install and in upgrade, the step that places packages into the
\* live system is preceded, in the same execution, by a verification that
\* ran and succeeded.
C4_VerificationPrecedesPlacement ==
    \A p \in Procs :
        command[p].name \in {"install", "upgrade"} =>
            \A i \in 1..Len(spawned[p]) :
                ( /\ SubCommandOf(p, i) \in {"add", "upgrade"}
                  /\ StatusOf(p, i) # "spawn_error" )
                => \E j \in 1..(i - 1) :
                      SubCommandOf(p, j) = "verify" /\ StatusOf(p, j) = "success"

\* C5: in security_update, when step 1 (apk update) exits unsuccessfully
\* step 2 (apk upgrade) is never executed and the operation fails.
C5_FailedStep1AbortsStep2 ==
    \A p \in Procs :
        ( /\ command[p].name = "security_update"
          /\ Len(spawned[p]) >= 1
          /\ StatusOf(p, 1) = "failure" )
        => /\ Len(spawned[p]) = 1
           /\ pc[p] = "done" => exitCode[p] = 1

\* C6: list with the explicit filter prints exactly the installed packages
\* whose explicit flag is set, list with the all filter prints every
\* installed package.
C6_ListHonoursFilter ==
    \A p \in Procs :
        ( /\ command[p].name = "list"
          /\ listed[p] # NoOutput
          /\ RanAlone(p) )
        => listed[p] =
             IF command[p].flag
               THEN {n \in Packages : installed[n] = "explicit"}
               ELSE {n \in Packages : installed[n] # "absent"}

\* C7: no two rows of the packages table share a name: every statement on
\* the table keeps the names pairwise distinct, and a statement rejected
\* with a constraint error leaves the table unchanged.
NamesDistinct ==
    \A r1, r2 \in packages : r1.name = r2.name => r1 = r2

Rejected == {"constraint_notnull", "constraint_primarykey", "constraint_unique"}

C7_InstalledNamesUnique ==
    [][ /\ NamesDistinct'
        /\ sqlResult' \in Rejected => packages' = packages ]_vars

C7_Witness ==
    /\ sqlResult = "constraint_unique"
    /\ Cardinality(packages) = 2

\* C8: a mutating operation spawns its backend command only after the root
\* check of that invocation passed; an invocation that is not root spawns
\* nothing and ends in failure.
C8_RootCheckBeforeSpawn ==
    \A p \in Procs :
        command[p].name \in Mutating =>
            /\ spawned[p] # <<>> => is_root(p)
            /\ ~is_root(p) => pc[p] \in {"call", "done"}
            /\ (~is_root(p) /\ pc[p] = "done") =>
                  /\ exitCode[p] = 1
                  /\ spawned[p] = <<>>

C8_Witness ==
    /\ \E p \in Procs :
          /\ command[p].name \in Mutating
          /\ ~is_root(p)
          /\ pc[p] = "done"
          /\ exitCode[p] = 1
    /\ \E p \in Procs :
          /\ command[p].name \in Mutating
          /\ is_root(p)
          /\ spawned[p] # <<>>

\* C9: a command does nothing but spawn apk with the fixed sub-command of
\* that command, and no command opens, initialises or writes the metadata
\* store, whose contents stay as they were.
Delegates(name, i) ==
    CASE name = "install" -> <<"add">>
      [] name = "remove" -> <<"del">>
      [] name = "update" -> <<"update">>
      [] name = "upgrade" -> <<"upgrade">>
      [] name = "search" -> <<"search">>
      [] name = "info" -> <<"info">>
      [] name = "list" -> <<"list", "--installed">>
      [] name = "verify" -> <<"verify">>
      [] name = "security_update" -> IF i = 1 THEN <<"update">> ELSE <<"upgrade">>
      [] OTHER -> <<>>

C9_CommandsOnlyDelegate ==
    /\ conn = "closed"
    /\ tables = {}
    /\ packages = {}
    /\ \A p \in Procs :
          /\ Len(spawned[p]) <= (IF command[p].name = "security_update" THEN 2 ELSE 1)
          /\ \A i \in 1..Len(spawned[p]) :
                LET argv == spawned[p][i].argv
                    sub == Delegates(command[p].name, i)
                IN /\ argv[1] = "apk"
                   /\ Len(argv) >= 1 + Len(sub)
                   /\ SubSeq(argv, 2, 1 + Len(sub)) = sub

C9_Witness ==
    \E p \in Procs :
        /\ command[p].name = "security_update"
        /\ pc[p] = "done"
        /\ exitCode[p] = 0
        /\ Len(spawned[p]) = 2
        /\ index = 1
        /\ conn = "closed"

\* C10: an invocation ends with status 0 exactly when the privilege check
\* passed (for a mutating command) and every backend command it ran was
\* spawned and exited successfully; otherwise it ends with status 1.
C10_ExitStatusReflectsBackend ==
    \A p \in Procs :
        pc[p] = "done" =>
            /\ exitCode[p] \in {0, 1}
            /\ exitCode[p] = 0 <=>
                  /\ command[p].name \in Mutating => is_root(p)
                  /\ \A i \in 1..Len(spawned[p]) : StatusOf(p, i) = "success"

====
